---- MODULE Spec2Model ----
(***************************************************************************)
(* Model of scripts/sct_segment_graymatter.py: the gray-matter             *)
(* segmentation pipeline (Preprocessing, FullGmSegmentation).              *)
(*                                                                         *)
(* File names are sequences of one-character strings, so that the          *)
(* concatenations and the slice of post_processing are computed as the     *)
(* code computes them.  Spacings and thresholds are in thousandths         *)
(* (0.3 is 300, 0.1 is 100, 0.05 is 50).                                   *)
(***************************************************************************)
EXTENDS Integers, Sequences, FiniteSets, TLC

VARIABLES
    pc,               \* position of the run in FullGmSegmentation.__init__
    failed_at,        \* the stage in which a fatal error ended the run
    cwd,              \* depth of the process working directory below the start
    fs,               \* files written by the run: <<depth, name>>
    clock,            \* wall clock, in seconds
    target_fname,     \* -i
    ref_gm_seg_fname, \* -ref, NoneName when absent
    compute_ratio,    \* -ratio
    res_type,         \* -res-type
    denoising,        \* -denoising
    tmp_dir,          \* self.tmp_dir
    preprocessed,     \* self.preprocessed (the Preprocessing object)
    gm_seg,           \* self.gm_seg (the three result volumes)
    res_names,        \* self.res_names
    trace,            \* calls and returns of the stages, in order
    val,              \* locals of validation()
    pp,               \* locals of post_processing()
    ratio,            \* locals and output of compute_ratio()
    runs,             \* concurrent runs: their position, target and tmp_dir
    dirs              \* directories present in the shared starting directory

vars == <<pc, failed_at, cwd, fs, clock, target_fname, ref_gm_seg_fname,
          compute_ratio, res_type, denoising, tmp_dir, preprocessed, gm_seg,
          res_names, trace, val, pp, ratio, runs, dirs>>

pipeVars == <<pc, failed_at, cwd, fs, target_fname, ref_gm_seg_fname,
              compute_ratio, res_type, denoising, tmp_dir, preprocessed,
              gm_seg, res_names, trace, val, pp, ratio>>

concVars == <<runs, dirs>>

----------------------------------------------------------------------------
(* Bounds of the model *)

MaxClock == 1

MaxLines == 2

(* Program constants *)

RESAMPLE_TO == 300

THR_REF == 100

THR_PROB == 50

\* binarisation thresholds of validation, in hundred-thousandths
BIN_GM == 50000

BIN_WM == 50001

----------------------------------------------------------------------------
(* Character sequences *)

NoneName == <<>>

NIIGZ == <<".", "n", "i", "i", ".", "g", "z">>

NII == <<".", "n", "i", "i">>

GZ == <<".", "g", "z">>

TXT == <<".", "t", "x", "t">>

RPI == <<"R", "P", "I">>

IRP == <<"I", "R", "P">>

Orientations == {RPI, IRP}

Digit(n) == <<"0", "1", "2", "3", "4", "5", "6", "7", "8", "9">>[n + 1]

EndsWith(s, sfx) ==
    /\ Len(s) >= Len(sfx)
    /\ SubSeq(s, Len(s) - Len(sfx) + 1, Len(s)) = sfx

StartsWith(s, pfx) ==
    /\ Len(s) >= Len(pfx)
    /\ SubSeq(s, 1, Len(pfx)) = pfx

\* s[n:] of Python, n counted from 0
DropFirst(s, n) == SubSeq(s, n + 1, Len(s))

\* position of the last occurrence of character c in s, 0 when absent
LastIndexOf(s, c) ==
    LET hits == {i \in 1..Len(s) : s[i] = c}
    IN  IF hits = {} THEN 0 ELSE CHOOSE i \in hits : \A j \in hits : j <= i

\* sct.extract_fname: (path, file name without extension, extension);
\* '.nii.gz' counts as one extension
extract_fname(fname) ==
    LET slash == LastIndexOf(fname, "/")
        path  == SubSeq(fname, 1, slash)
        file  == DropFirst(fname, slash)
        dot   == LastIndexOf(file, ".")
        stem  == IF dot = 0 THEN file ELSE SubSeq(file, 1, dot - 1)
        ext   == IF dot = 0 THEN <<>> ELSE DropFirst(file, dot - 1)
    IN  IF ext = GZ /\ EndsWith(stem, NII)
        THEN <<path, SubSeq(stem, 1, Len(stem) - Len(NII)), NIIGZ>>
        ELSE <<path, stem, ext>>

\* check_file_to_niigz: a '.nii' file is compressed and named '.nii.gz'
check_file_to_niigz(fname) ==
    IF EndsWith(fname, NII) THEN fname \o GZ ELSE fname

\* time.strftime("%y%m%d%H%M%S"): fixed width, one character per digit;
\* the digits above the seconds are constant in the modelled window
strftime(t) == <<Digit((t \div 10) % 10), Digit(t % 10)>>

----------------------------------------------------------------------------
(* Literal names of the script *)

TMP_ == <<"t", "m", "p", "_">>

US == <<"_">>

TARGET == <<"t", "a", "r", "g", "e", "t">>

TARGET_SC_SEG == <<"t", "a", "r", "g", "e", "t", "_", "s", "c", "_", "s", "e", "g">>

SEG_IN_CROPED == <<"_", "s", "e", "g", "_", "i", "n", "_", "c", "r", "o", "p", "e", "d">>

REF_GM_SEG == <<"r", "e", "f", "_", "g", "m", "_", "s", "e", "g">>

REF_WM_SEG == <<"r", "e", "f", "_", "w", "m", "_", "s", "e", "g">>

RES_GM_SEG_BIN == <<"r", "e", "s", "_", "g", "m", "_", "s", "e", "g", "_", "b", "i", "n">>

RES_WM_SEG_BIN == <<"r", "e", "s", "_", "w", "m", "_", "s", "e", "g", "_", "b", "i", "n">>

IN_RES_SPACE == <<"_", "i", "n", "_", "r", "e", "s", "_", "s", "p", "a", "c", "e">>

DICE_ == <<"d", "i", "c", "e", "_">>

HD_ == <<"h", "d", "_">>

BINARY == <<"b", "i", "n", "a", "r", "y">>

PROB == <<"p", "r", "o", "b">>

(* Names chosen by code outside this script *)

RESAMPLED == <<"_", "r", "e", "s", "a", "m", "p", "l", "e", "d">>

DENOISED == <<"_", "d", "e", "n", "o", "i", "s", "e", "d">>

ORIGINAL_SPACE == <<"_", "o", "r", "i", "g", "i", "n", "a", "l", "_", "s", "p", "a", "c", "e">>

RES_WMSEG == <<"_", "r", "e", "s", "_", "w", "m", "s", "e", "g">>

RES_GMSEG == <<"_", "r", "e", "s", "_", "g", "m", "s", "e", "g">>

RES_WMSEG_CORRECTED == <<"_", "r", "e", "s", "_", "w", "m", "s", "e", "g", "_", "c", "o", "r", "r", "e", "c", "t", "e", "d">>

(* Inputs *)

T1 == <<"a", "/", "t", ".", "n", "i", "i", ".", "g", "z">>

T2 == <<"b", "/", "t", ".", "n", "i", "i">>

T3 == <<"s", "1", ".", "n", "i", "i", ".", "g", "z">>

Targets == {T1, T2, T3}

REF_FILE == <<"m", "a", "n", "u", "a", "l", "_", "g", "m", ".", "n", "i", "i", ".", "g", "z">>

SC_SEG_FILE == <<"s", "c", ".", "n", "i", "i", ".", "g", "z">>

ResTypes == {"binary", "prob"}

\* native in-plane spacings (px, py), in thousandths
SpacingPairs == {<<302, 300>>, <<500, 500>>, <<300, 500>>}

Masks == {"maskA", "maskB"}

TypeChars(rt) == IF rt = "binary" THEN BINARY ELSE PROB

\* round(x, 2) on a spacing in thousandths
round2(x) == ((x + 5) \div 10) * 10

----------------------------------------------------------------------------
(* External collaborators *)

\* sct.run: the outcome of an external command.  A failure is fatal unless
\* the caller asked for an exception it can catch.
Run(ok, raise_exception) ==
    IF ok THEN "ok" ELSE IF raise_exception THEN "exception" ELSE "fatal"

\* resample_image: the name of the resampled file
resample_image(fname) == extract_fname(fname)[2] \o RESAMPLED \o NIIGZ

\* Image.denoise_ornlm then save: the name of the denoised file
denoised_name(fname) == extract_fname(fname)[2] \o DENOISED \o NIIGZ

\* sct_orientation -i fname -s ori: the name of the file it writes
orientation_out(fname, ori) == extract_fname(fname)[2] \o US \o ori \o NIIGZ

\* inverse_square_crop: the file name of the un-cropped image
inverse_square_crop_name(file_name) == file_name \o ORIGINAL_SPACE

\* GMsegSupervisedMethod: the three result volumes, each named by the
\* processing-space base name followed by a suffix of its own
Volume(base, sfx, kind, tissue) ==
    [file_name |-> base \o sfx, path |-> "./",
     data |-> [tissue |-> tissue, kind |-> kind, thr |-> 0]]

GMsegSupervisedMethod(treated_target, kind) ==
    LET base == extract_fname(treated_target)[2]
    IN  [res_wm_seg       |-> Volume(base, RES_WMSEG, kind, "wm"),
         res_gm_seg       |-> Volume(base, RES_GMSEG, kind, "gm"),
         corrected_wm_seg |-> Volume(base, RES_WMSEG_CORRECTED, kind, "corrected_wm")]

----------------------------------------------------------------------------
(* State before the stages have run *)

NoVolume ==
    [file_name |-> <<>>, path |-> "", data |-> [tissue |-> "", kind |-> "", thr |-> 0]]

NoPreprocessed ==
    [t2star |-> <<>>, sc_seg |-> <<>>, resample_to |-> 0, original_px |-> 0,
     original_py |-> 0, original_orientation |-> <<>>, square_mask |-> "",
     treated_target |-> <<>>, crop_mask_used |-> ""]

NoGmSeg ==
    [res_wm_seg |-> NoVolume, res_gm_seg |-> NoVolume, corrected_wm_seg |-> NoVolume]

NoResNames == [wm_seg |-> <<>>, gm_seg |-> <<>>, corrected_wm_seg |-> <<>>]

\* one invocation of an external tool
NoCall ==
    [tool |-> "", tissue |-> "", in1 |-> <<>>, in2 |-> <<>>, out |-> <<>>,
     n |-> 0, n2 |-> 0, mask |-> ""]

NoVal ==
    [mask |-> "", ref_resampled_to |-> 0, ref_crop_mask |-> "",
     res_gm_seg_bin |-> NoVolume, res_wm_seg_bin |-> NoVolume,
     im_ref_gm_seg |-> <<>>, im_ref_wm_seg |-> <<>>,
     tissue |-> "", step |-> "",
     direct |-> [gm |-> "", wm |-> ""],
     fallback |-> [gm |-> FALSE, wm |-> FALSE],
     scored |-> [gm |-> <<>>, wm |-> <<>>],
     calls |-> <<>>, dice_name |-> <<>>, hd_name |-> <<>>, hd_ref |-> <<>>]

NoPp ==
    [k |-> 0, step |-> "", mask |-> "", os_name |-> <<>>, orient_out |-> <<>>,
     res_name |-> <<>>, old_res_name |-> <<>>, tmp_res_names |-> <<>>,
     last |-> NoCall]

NoRatio == [gm_lines |-> <<>>, wm_lines |-> <<>>, out |-> <<>>, err |-> ""]

NoRuns == [r \in {} |-> 0]

Call(stage) == <<"call", stage>>

Ret(stage) == <<"ret", stage>>

\* a fatal error: the process ends where it is
Abort(stage, tr) ==
    /\ pc' = "fatal"
    /\ failed_at' = stage
    /\ trace' = tr

----------------------------------------------------------------------------
(* FullGmSegmentation.__init__ up to the call of segmentation_pipeline *)

\* 'tmp_' + extract_fname(target_fname)[1] + '_' + time.strftime(...)
TmpDirName(target, t) ==
    TMP_ \o extract_fname(check_file_to_niigz(target))[2] \o US \o strftime(t)

Init ==
    /\ pc = "init"
    /\ failed_at = ""
    /\ cwd = 0
    /\ fs = {}
    /\ clock \in 0..MaxClock
    /\ target_fname \in Targets
    /\ ref_gm_seg_fname \in {NoneName, REF_FILE}
    /\ compute_ratio \in BOOLEAN
    /\ res_type \in ResTypes
    /\ denoising \in BOOLEAN
    /\ tmp_dir = <<>>
    /\ preprocessed = NoPreprocessed
    /\ gm_seg = NoGmSeg
    /\ res_names = NoResNames
    /\ trace = <<>>
    /\ val = NoVal
    /\ pp = NoPp
    /\ ratio = NoRatio
    /\ runs = NoRuns
    /\ dirs = {}

\* lines 108-126: names, mkdir of the working directory, empty result fields
CreateWorkspace ==
    /\ pc = "init"
    /\ \E ok \in BOOLEAN :
        LET name == TmpDirName(target_fname, clock)
            tr   == Append(trace, Call("workspace"))
        IN  IF Run(ok, FALSE) = "ok"
            THEN /\ pc' = "staging"
                 /\ tmp_dir' = name
                 /\ target_fname' = check_file_to_niigz(target_fname)
                 /\ res_names' = NoResNames
                 /\ trace' = Append(tr, Ret("workspace"))
                 /\ UNCHANGED failed_at
            ELSE /\ Abort("workspace", tr)
                 /\ UNCHANGED <<tmp_dir, target_fname, res_names>>
    /\ UNCHANGED <<cwd, fs, clock, ref_gm_seg_fname, compute_ratio, res_type,
                   denoising, preprocessed, gm_seg, val, pp, ratio, runs, dirs>>

\* Preprocessing.__init__ lines 27-52: the inputs are copied into tmp_dir
StageInputs ==
    /\ pc = "staging"
    /\ \E ok \in BOOLEAN :
        LET tr == Append(trace, Call("staging"))
        IN  IF Run(ok, FALSE) = "ok"
            THEN /\ pc' = "preprocessing"
                 /\ fs' = fs \cup {<<cwd + 1, TARGET \o NIIGZ>>,
                                   <<cwd + 1, TARGET_SC_SEG \o NIIGZ>>}
                 /\ preprocessed' = [NoPreprocessed EXCEPT
                        !.t2star = TARGET \o NIIGZ,
                        !.sc_seg = TARGET_SC_SEG \o NIIGZ,
                        !.resample_to = RESAMPLE_TO]
                 /\ trace' = Append(tr, Ret("staging"))
                 /\ UNCHANGED failed_at
            ELSE /\ Abort("staging", tr)
                 /\ UNCHANGED <<fs, preprocessed>>
    /\ UNCHANGED <<cwd, clock, target_fname, ref_gm_seg_fname, compute_ratio,
                   res_type, denoising, tmp_dir, gm_seg, res_names, val, pp,
                   ratio, runs, dirs>>

\* Preprocessing.__init__ lines 55-92: resampling, denoising, native
\* orientation, crop; the working directory is entered and left again
Preprocess ==
    /\ pc = "preprocessing"
    /\ \E ok \in BOOLEAN, sp \in SpacingPairs, ori \in Orientations, m \in Masks :
        LET tr   == Append(trace, Call("Preprocessing"))
            need == round2(sp[1]) # preprocessed.resample_to
                    \/ round2(sp[2]) # preprocessed.resample_to
            t1   == IF need THEN resample_image(preprocessed.t2star)
                            ELSE preprocessed.t2star
            s1   == IF need THEN resample_image(preprocessed.sc_seg)
                            ELSE preprocessed.sc_seg
            t2   == IF denoising THEN denoised_name(t1) ELSE t1
        IN  IF Run(ok, FALSE) = "ok"
            THEN /\ pc' = "segmenter"
                 /\ fs' = fs \cup {<<cwd + 1, t1>>, <<cwd + 1, s1>>, <<cwd + 1, t2>>}
                 /\ preprocessed' = [preprocessed EXCEPT
                        !.original_px = sp[1],
                        !.original_py = sp[2],
                        !.t2star = t2,
                        !.sc_seg = s1,
                        !.original_orientation = ori,
                        !.square_mask = m,
                        !.crop_mask_used = m,
                        !.treated_target = extract_fname(t2)[2] \o SEG_IN_CROPED \o NIIGZ]
                 /\ trace' = Append(tr, Ret("Preprocessing"))
                 /\ UNCHANGED failed_at
            ELSE /\ Abort("Preprocessing", tr)
                 /\ UNCHANGED <<fs, preprocessed>>
    /\ UNCHANGED <<cwd, clock, target_fname, ref_gm_seg_fname, compute_ratio,
                   res_type, denoising, tmp_dir, gm_seg, res_names, val, pp,
                   ratio, runs, dirs>>

\* line 158: the reference decides whether validation runs
AfterSegmenterAlways == "stage_ref"

AfterSegmenter ==
    IF ref_gm_seg_fname # NoneName THEN "stage_ref" ELSE "post_begin"

\* lines 148-156: the Segmenter runs inside the working directory
Segment ==
    /\ pc = "segmenter"
    /\ \E ok \in BOOLEAN :
        LET tr == Append(trace, Call("GMsegSupervisedMethod"))
        IN  IF Run(ok, FALSE) = "ok"
            THEN /\ pc' = AfterSegmenter
                 /\ gm_seg' = GMsegSupervisedMethod(preprocessed.treated_target, res_type)
                 /\ trace' = Append(tr, Ret("GMsegSupervisedMethod"))
                 /\ UNCHANGED failed_at
            ELSE /\ Abort("GMsegSupervisedMethod", tr)
                 /\ UNCHANGED gm_seg
    /\ cwd' = cwd + 1
    /\ UNCHANGED <<fs, clock, target_fname, ref_gm_seg_fname, compute_ratio,
                   res_type, denoising, tmp_dir, preprocessed, res_names, val,
                   pp, ratio, runs, dirs>>

----------------------------------------------------------------------------
(* segmentation_pipeline lines 158-165 and validation() *)

\* lines 159-162: the reference and the cord segmentation are copied into
\* the working directory from the starting directory
StageRef ==
    /\ pc = "stage_ref"
    /\ \E ok \in BOOLEAN :
        IF Run(ok, FALSE) = "ok"
        THEN /\ pc' = "val_begin"
             /\ fs' = fs \cup
                  {<<cwd, extract_fname(ref_gm_seg_fname)[2] \o extract_fname(ref_gm_seg_fname)[3]>>,
                   <<cwd, extract_fname(SC_SEG_FILE)[2] \o extract_fname(SC_SEG_FILE)[3]>>}
             /\ cwd' = cwd
             /\ UNCHANGED <<failed_at, trace>>
        ELSE /\ Abort("segmentation_pipeline", trace)
             /\ cwd' = cwd - 1
             /\ UNCHANGED fs
    /\ UNCHANGED <<clock, target_fname, ref_gm_seg_fname, compute_ratio,
                   res_type, denoising, tmp_dir, preprocessed, gm_seg,
                   res_names, val, pp, ratio, runs, dirs>>

\* lines 243-244: a copy is binarised, the volume it was copied from is not
Binarized(vol, thr) ==
    [vol EXCEPT !.data = [tissue |-> vol.data.tissue, kind |-> "binary", thr |-> thr]]

\* Image.copy: a new object whose fields equal those of the volume
ImageCopy(vol) == vol

\* lines 239-240: validation works on copies, so what it writes to them
\* (data, path, file name) leaves the Segmenter's volume as it was
SegmenterVolumeAliased(orig, worked) == worked

SegmenterVolumeAfter(orig, worked) == orig

\* line 246: the crop mask validation uses
ValMask == preprocessed.square_mask

\* lines 255, 263: the spacing validation resamples the reference to
ValResampleToNative == preprocessed.original_px

ValResampleTo == preprocessed.resample_to

\* lines 231-246
ValBegin ==
    /\ pc = "val_begin"
    /\ \E ok \in BOOLEAN :
        LET tr == Append(trace, Call("validation"))
            g  == ImageCopy(gm_seg.res_gm_seg)
            w  == ImageCopy(gm_seg.res_wm_seg)
            gb == IF res_type = "prob" THEN Binarized(g, BIN_GM) ELSE g
            wb == IF res_type = "prob" THEN Binarized(w, BIN_WM) ELSE w
        IN  IF Run(ok, FALSE) = "ok"
            THEN /\ pc' = "val_ref"
                 /\ val' = [NoVal EXCEPT
                        !.res_gm_seg_bin = gb,
                        !.res_wm_seg_bin = wb,
                        !.mask = ValMask]
                 /\ gm_seg' = [gm_seg EXCEPT
                        !.res_gm_seg = SegmenterVolumeAfter(@, gb),
                        !.res_wm_seg = SegmenterVolumeAfter(@, wb)]
                 /\ trace' = tr
                 /\ UNCHANGED failed_at
            ELSE /\ Abort("validation", tr)
                 /\ UNCHANGED <<val, gm_seg>>
    /\ UNCHANGED <<cwd, fs, clock, target_fname, ref_gm_seg_fname, compute_ratio,
                   res_type, denoising, tmp_dir, preprocessed,
                   res_names, pp, ratio, runs, dirs>>

\* lines 249-275: inside the validation directory the two references are
\* resampled, reoriented and cropped
ValRef ==
    /\ pc = "val_ref"
    /\ \E ok \in BOOLEAN :
        IF Run(ok, FALSE) = "ok"
        THEN /\ pc' = "val_save"
             /\ val' = [val EXCEPT
                    !.ref_resampled_to = ValResampleTo,
                    !.ref_crop_mask = val.mask]
             /\ UNCHANGED <<failed_at, trace>>
        ELSE /\ Abort("validation", trace)
             /\ UNCHANGED val
    /\ cwd' = cwd + 1
    /\ UNCHANGED <<fs, clock, target_fname, ref_gm_seg_fname, compute_ratio,
                   res_type, denoising, tmp_dir, preprocessed, gm_seg,
                   res_names, pp, ratio, runs, dirs>>

\* lines 278-309: the four volumes are saved under their comparison names
ValSave ==
    /\ pc = "val_save"
    /\ \E ok \in BOOLEAN :
        IF Run(ok, FALSE) = "ok"
        THEN /\ pc' = "dice"
             /\ val' = [val EXCEPT
                    !.res_gm_seg_bin.path = "./",
                    !.res_gm_seg_bin.file_name = RES_GM_SEG_BIN \o US \o RPI,
                    !.res_wm_seg_bin.path = "./",
                    !.res_wm_seg_bin.file_name = RES_WM_SEG_BIN \o US \o RPI,
                    !.im_ref_gm_seg = REF_GM_SEG,
                    !.im_ref_wm_seg = REF_WM_SEG,
                    !.tissue = "gm",
                    !.step = "direct"]
             /\ gm_seg' = [gm_seg EXCEPT
                    !.res_gm_seg = SegmenterVolumeAfter(@, val'.res_gm_seg_bin),
                    !.res_wm_seg = SegmenterVolumeAfter(@, val'.res_wm_seg_bin)]
             /\ fs' = fs \cup
                  {<<cwd, RES_GM_SEG_BIN \o NIIGZ>>, <<cwd, RES_WM_SEG_BIN \o NIIGZ>>,
                   <<cwd, orientation_out(RES_GM_SEG_BIN \o NIIGZ, RPI)>>,
                   <<cwd, orientation_out(RES_WM_SEG_BIN \o NIIGZ, RPI)>>,
                   <<cwd, REF_GM_SEG \o NIIGZ>>, <<cwd, REF_WM_SEG \o NIIGZ>>}
             /\ UNCHANGED <<failed_at, trace>>
        ELSE /\ Abort("validation", trace)
             /\ UNCHANGED <<val, fs, gm_seg>>
    /\ UNCHANGED <<cwd, clock, target_fname, ref_gm_seg_fname, compute_ratio,
                   res_type, denoising, tmp_dir, preprocessed,
                   res_names, pp, ratio, runs, dirs>>

\* the reference and the computed result of the tissue being compared
RefOf(t) == IF t = "gm" THEN val.im_ref_gm_seg ELSE val.im_ref_wm_seg

ResOf(t) ==
    IF t = "gm" THEN val.res_gm_seg_bin.file_name ELSE val.res_wm_seg_bin.file_name

\* the ways the overlap tool can fail
DiceFailures == {"mismatch", "other"}

\* lines 314, 322: 'except Exception' takes every exception of the call
ExceptCatches(failure) == failure \in DiceFailures

\* lines 316-319, 324-327: the order of the commands of the handler
NextFallbackStepNoThr(step) ==
    CASE step = "register" -> "bin"
      [] step = "thr"      -> "bin"
      [] step = "bin"      -> "retry"

NextFallbackStep(step) ==
    CASE step = "register" -> "thr"
      [] step = "thr"      -> "bin"
      [] step = "bin"      -> "retry"

\* after the overlap of one tissue: white matter follows gray matter,
\* the report follows white matter
DiceDone(v, t, pair) ==
    LET v1 == [v EXCEPT !.scored[t] = pair]
    IN  IF t = "gm"
        THEN /\ pc' = "dice"
             /\ val' = [v1 EXCEPT !.tissue = "wm", !.step = "direct"]
        ELSE /\ pc' = "val_report"
             /\ val' = [v1 EXCEPT !.tissue = "", !.step = ""]

\* lines 313, 321: the direct invocation of the overlap tool
DiceDirect ==
    /\ pc = "dice"
    /\ val.step = "direct"
    /\ \E outcome \in {"ok"} \cup DiceFailures :
        LET t == val.tissue
            c == [NoCall EXCEPT !.tool = "sct_dice_coefficient", !.tissue = t,
                                !.in1 = RefOf(t) \o NIIGZ, !.in2 = ResOf(t) \o NIIGZ]
            v == [val EXCEPT !.calls = Append(val.calls, c), !.direct[t] = outcome]
        IN  IF Run(outcome = "ok", TRUE) = "ok"
            THEN /\ DiceDone(v, t, <<c.in1, c.in2>>)
                 /\ UNCHANGED <<failed_at, trace>>
            ELSE IF ExceptCatches(outcome)
            THEN /\ pc' = "dice"
                 /\ val' = [v EXCEPT !.fallback[t] = TRUE, !.step = "register"]
                 /\ UNCHANGED <<failed_at, trace>>
            ELSE /\ Abort("validation", trace)
                 /\ val' = v
    /\ UNCHANGED <<cwd, fs, clock, target_fname, ref_gm_seg_fname, compute_ratio,
                   res_type, denoising, tmp_dir, preprocessed, gm_seg,
                   res_names, pp, ratio, runs, dirs>>

\* lines 316, 324: zero-iteration translation of the reference into the
\* space of the result
Register ==
    /\ pc = "dice"
    /\ val.step = "register"
    /\ \E ok \in BOOLEAN :
        LET t == val.tissue
            c == [NoCall EXCEPT !.tool = "isct_antsRegistration", !.tissue = t,
                                !.in1 = ResOf(t) \o NIIGZ, !.in2 = RefOf(t) \o NIIGZ,
                                !.out = RefOf(t) \o IN_RES_SPACE \o NIIGZ]
            v == [val EXCEPT !.calls = Append(val.calls, c)]
        IN  IF Run(ok, FALSE) = "ok"
            THEN /\ pc' = "dice"
                 /\ val' = [v EXCEPT !.step = NextFallbackStep("register")]
                 /\ fs' = fs \cup {<<cwd, c.out>>}
                 /\ UNCHANGED <<failed_at, trace>>
            ELSE /\ Abort("validation", trace)
                 /\ val' = v
                 /\ UNCHANGED fs
    /\ UNCHANGED <<cwd, clock, target_fname, ref_gm_seg_fname, compute_ratio,
                   res_type, denoising, tmp_dir, preprocessed, gm_seg,
                   res_names, pp, ratio, runs, dirs>>

\* lines 317, 325: the registered reference is thresholded in place
Threshold ==
    /\ pc = "dice"
    /\ val.step = "thr"
    /\ \E ok \in BOOLEAN :
        LET t == val.tissue
            f == RefOf(t) \o IN_RES_SPACE \o NIIGZ
            c == [NoCall EXCEPT !.tool = "sct_maths -thr", !.tissue = t,
                                !.in1 = f, !.out = f, !.n = THR_REF]
            v == [val EXCEPT !.calls = Append(val.calls, c)]
        IN  IF Run(ok, FALSE) = "ok"
            THEN /\ pc' = "dice"
                 /\ val' = [v EXCEPT !.step = NextFallbackStep("thr")]
                 /\ UNCHANGED <<failed_at, trace>>
            ELSE /\ Abort("validation", trace)
                 /\ val' = v
    /\ UNCHANGED <<cwd, fs, clock, target_fname, ref_gm_seg_fname, compute_ratio,
                   res_type, denoising, tmp_dir, preprocessed, gm_seg,
                   res_names, pp, ratio, runs, dirs>>

\* lines 318, 326: the thresholded reference is binarised in place
Binarize ==
    /\ pc = "dice"
    /\ val.step = "bin"
    /\ \E ok \in BOOLEAN :
        LET t == val.tissue
            f == RefOf(t) \o IN_RES_SPACE \o NIIGZ
            c == [NoCall EXCEPT !.tool = "sct_maths -bin", !.tissue = t,
                                !.in1 = f, !.out = f]
            v == [val EXCEPT !.calls = Append(val.calls, c)]
        IN  IF Run(ok, FALSE) = "ok"
            THEN /\ pc' = "dice"
                 /\ val' = [v EXCEPT !.step = NextFallbackStep("bin")]
                 /\ UNCHANGED <<failed_at, trace>>
            ELSE /\ Abort("validation", trace)
                 /\ val' = v
    /\ UNCHANGED <<cwd, fs, clock, target_fname, ref_gm_seg_fname, compute_ratio,
                   res_type, denoising, tmp_dir, preprocessed, gm_seg,
                   res_names, pp, ratio, runs, dirs>>

\* lines 319, 327: the overlap tool on the registered reference; this call
\* asks for no exception, so its failure is not caught
DiceRetry ==
    /\ pc = "dice"
    /\ val.step = "retry"
    /\ \E ok \in BOOLEAN :
        LET t == val.tissue
            c == [NoCall EXCEPT !.tool = "sct_dice_coefficient", !.tissue = t,
                                !.in1 = RefOf(t) \o IN_RES_SPACE \o NIIGZ,
                                !.in2 = ResOf(t) \o NIIGZ]
            v == [val EXCEPT !.calls = Append(val.calls, c)]
        IN  IF Run(ok, FALSE) = "ok"
            THEN /\ DiceDone(v, t, <<c.in1, c.in2>>)
                 /\ UNCHANGED <<failed_at, trace>>
            ELSE /\ Abort("validation", trace)
                 /\ val' = v
    /\ UNCHANGED <<cwd, fs, clock, target_fname, ref_gm_seg_fname, compute_ratio,
                   res_type, denoising, tmp_dir, preprocessed, gm_seg,
                   res_names, pp, ratio, runs, dirs>>

\* lines 329, 342: the names of the two reports
ReportName(prefix) ==
    prefix \o extract_fname(target_fname)[2] \o US \o TypeChars(res_type) \o TXT

\* lines 329-339: the overlap report is written two levels up
ValReport ==
    /\ pc = "val_report"
    /\ pc' = "hausdorff"
    /\ val' = [val EXCEPT !.dice_name = ReportName(DICE_)]
    /\ fs' = fs \cup {<<cwd - 2, ReportName(DICE_)>>}
    /\ UNCHANGED <<failed_at, cwd, clock, target_fname, ref_gm_seg_fname,
                   compute_ratio, res_type, denoising, tmp_dir, preprocessed,
                   gm_seg, res_names, trace, pp, ratio, runs, dirs>>

\* line 343: the reference handed to the boundary-distance tool
HdReference == val.im_ref_gm_seg \o NIIGZ

\* lines 342-343: the boundary-distance tool
Hausdorff ==
    /\ pc = "hausdorff"
    /\ \E ok \in BOOLEAN :
        LET c == [NoCall EXCEPT !.tool = "sct_compute_hausdorff_distance",
                                !.tissue = "gm",
                                !.in1 = val.res_gm_seg_bin.file_name \o NIIGZ,
                                !.in2 = HdReference,
                                !.out = ReportName(HD_)]
            v == [val EXCEPT !.calls = Append(val.calls, c), !.hd_ref = c.in2]
        IN  IF Run(ok, FALSE) = "ok"
            THEN /\ pc' = "val_end"
                 /\ val' = [v EXCEPT !.hd_name = c.out]
                 /\ fs' = fs \cup {<<cwd, c.out>>}
                 /\ UNCHANGED <<failed_at, trace>>
            ELSE /\ Abort("validation", trace)
                 /\ val' = v
                 /\ UNCHANGED fs
    /\ UNCHANGED <<cwd, clock, target_fname, ref_gm_seg_fname, compute_ratio,
                   res_type, denoising, tmp_dir, preprocessed, gm_seg,
                   res_names, pp, ratio, runs, dirs>>

\* line 346: os.chdir('..') leaves the validation directory
LeaveValidationStay == cwd

LeaveValidation == cwd - 1

\* lines 344-347: the distance report is moved two levels up and
\* validation returns from the validation directory
ValEnd ==
    /\ pc = "val_end"
    /\ \E ok \in BOOLEAN :
        IF Run(ok, FALSE) = "ok"
        THEN /\ pc' = "post_begin"
             /\ fs' = (fs \ {<<cwd, val.hd_name>>}) \cup {<<cwd - 2, val.hd_name>>}
             /\ cwd' = LeaveValidation
             /\ trace' = Append(trace, Ret("validation"))
             /\ UNCHANGED failed_at
        ELSE /\ Abort("validation", trace)
             /\ UNCHANGED <<fs, cwd>>
    /\ UNCHANGED <<clock, target_fname, ref_gm_seg_fname, compute_ratio,
                   res_type, denoising, tmp_dir, preprocessed, gm_seg,
                   res_names, val, pp, ratio, runs, dirs>>

----------------------------------------------------------------------------
(* post_processing() and the end of segmentation_pipeline *)

\* line 176: the order in which the result volumes are treated
ResIm(k) == <<gm_seg.res_wm_seg, gm_seg.res_gm_seg, gm_seg.corrected_wm_seg>>[k]

\* line 180: the subject's base name, then what follows the
\* processing-space base name in the result's file name, then '.nii.gz'
ResNameKeepAll(file_name) ==
    extract_fname(target_fname)[2] \o file_name \o NIIGZ

ResName(file_name) ==
    extract_fname(target_fname)[2]
        \o DropFirst(file_name, Len(extract_fname(preprocessed.treated_target)[2]))
        \o NIIGZ

\* line 186: the file handed to resample_image
ResampleArg(os_name) == os_name \o US \o RPI \o NIIGZ

\* line 193: 'cp ... ../': one level above the working directory
PersistDepthHere == cwd

PersistDepth == cwd - 1

\* lines 182-193: the order of the steps on one volume
NextPostStep(step) ==
    CASE step = "uncrop"   -> "orient"
      [] step = "orient"   -> "resample"
      [] step = "resample" -> IF res_type = "prob" THEN "thr" ELSE "copy"
      [] step = "thr"      -> "copy"

\* lines 174-175
PostBegin ==
    /\ pc = "post_begin"
    /\ pc' = "post"
    /\ pp' = [NoPp EXCEPT !.mask = preprocessed.square_mask, !.k = 1, !.step = "uncrop"]
    /\ trace' = Append(trace, Call("post_processing"))
    /\ UNCHANGED <<failed_at, cwd, fs, clock, target_fname, ref_gm_seg_fname,
                   compute_ratio, res_type, denoising, tmp_dir, preprocessed,
                   gm_seg, res_names, val, ratio, runs, dirs>>

\* lines 177-178: un-crop with the mask and save
PostUncrop ==
    /\ pc = "post"
    /\ pp.step = "uncrop"
    /\ \E ok \in BOOLEAN :
        LET os == inverse_square_crop_name(ResIm(pp.k).file_name)
            c  == [NoCall EXCEPT !.tool = "inverse_square_crop",
                                 !.in1 = ResIm(pp.k).file_name,
                                 !.out = os \o NIIGZ, !.mask = pp.mask]
            p  == [pp EXCEPT !.last = c]
        IN  IF Run(ok, FALSE) = "ok"
            THEN /\ pc' = "post"
                 /\ pp' = [p EXCEPT !.os_name = os, !.step = NextPostStep("uncrop")]
                 /\ fs' = fs \cup {<<cwd, c.out>>}
                 /\ UNCHANGED <<failed_at, trace>>
            ELSE /\ Abort("post_processing", trace)
                 /\ pp' = p
                 /\ UNCHANGED fs
    /\ UNCHANGED <<cwd, clock, target_fname, ref_gm_seg_fname, compute_ratio,
                   res_type, denoising, tmp_dir, preprocessed, gm_seg,
                   res_names, val, ratio, runs, dirs>>

\* lines 179-180: reorient to the native orientation; the final name
PostOrient ==
    /\ pc = "post"
    /\ pp.step = "orient"
    /\ \E ok \in BOOLEAN :
        LET c == [NoCall EXCEPT !.tool = "sct_orientation",
                                !.in1 = pp.os_name \o NIIGZ,
                                !.in2 = preprocessed.original_orientation,
                                !.out = orientation_out(pp.os_name \o NIIGZ,
                                            preprocessed.original_orientation)]
            p == [pp EXCEPT !.last = c]
        IN  IF Run(ok, FALSE) = "ok"
            THEN /\ pc' = "post"
                 /\ pp' = [p EXCEPT !.orient_out = c.out,
                                    !.res_name = ResName(ResIm(pp.k).file_name),
                                    !.step = NextPostStep("orient")]
                 /\ fs' = fs \cup {<<cwd, c.out>>}
                 /\ UNCHANGED <<failed_at, trace>>
            ELSE /\ Abort("post_processing", trace)
                 /\ pp' = p
                 /\ UNCHANGED fs
    /\ UNCHANGED <<cwd, clock, target_fname, ref_gm_seg_fname, compute_ratio,
                   res_type, denoising, tmp_dir, preprocessed, gm_seg,
                   res_names, val, ratio, runs, dirs>>

\* lines 182-186: resample to the native spacing; the tool fails on a file
\* that is not there
PostResample ==
    /\ pc = "post"
    /\ pp.step = "resample"
    /\ \E ok \in BOOLEAN :
        LET c == [NoCall EXCEPT !.tool = "resample_image",
                                !.in1 = ResampleArg(pp.os_name),
                                !.out = resample_image(ResampleArg(pp.os_name)),
                                !.n = preprocessed.original_px,
                                !.n2 = preprocessed.original_py]
            p == [pp EXCEPT !.last = c]
        IN  IF Run(ok /\ <<cwd, c.in1>> \in fs, FALSE) = "ok"
            THEN /\ pc' = "post"
                 /\ pp' = [p EXCEPT !.old_res_name = c.out,
                                    !.step = NextPostStep("resample")]
                 /\ fs' = fs \cup {<<cwd, c.out>>}
                 /\ UNCHANGED <<failed_at, trace>>
            ELSE /\ Abort("post_processing", trace)
                 /\ pp' = p
                 /\ UNCHANGED fs
    /\ UNCHANGED <<cwd, clock, target_fname, ref_gm_seg_fname, compute_ratio,
                   res_type, denoising, tmp_dir, preprocessed, gm_seg,
                   res_names, val, ratio, runs, dirs>>

\* lines 188-191: a probabilistic result is thresholded in place
PostThreshold ==
    /\ pc = "post"
    /\ pp.step = "thr"
    /\ \E ok \in BOOLEAN :
        LET c == [NoCall EXCEPT !.tool = "sct_maths -thr",
                                !.in1 = pp.old_res_name, !.out = pp.old_res_name,
                                !.n = THR_PROB]
            p == [pp EXCEPT !.last = c]
        IN  IF Run(ok, FALSE) = "ok"
            THEN /\ pc' = "post"
                 /\ pp' = [p EXCEPT !.step = NextPostStep("thr")]
                 /\ UNCHANGED <<failed_at, trace>>
            ELSE /\ Abort("post_processing", trace)
                 /\ pp' = p
    /\ UNCHANGED <<cwd, fs, clock, target_fname, ref_gm_seg_fname, compute_ratio,
                   res_type, denoising, tmp_dir, preprocessed, gm_seg,
                   res_names, val, ratio, runs, dirs>>

\* lines 193-195: the final volume is copied out and its name kept; the
\* loop goes on with the next volume
PostCopy ==
    /\ pc = "post"
    /\ pp.step = "copy"
    /\ \E ok \in BOOLEAN :
        LET c == [NoCall EXCEPT !.tool = "cp", !.in1 = pp.old_res_name,
                                !.out = pp.res_name]
            p == [pp EXCEPT !.last = c]
        IN  IF Run(ok, FALSE) = "ok"
            THEN /\ fs' = fs \cup {<<PersistDepth, pp.res_name>>}
                 /\ IF pp.k < 3
                    THEN /\ pc' = "post"
                         /\ pp' = [p EXCEPT
                                !.tmp_res_names = Append(pp.tmp_res_names, pp.res_name),
                                !.k = pp.k + 1, !.step = "uncrop"]
                    ELSE /\ pc' = "post_end"
                         /\ pp' = [p EXCEPT
                                !.tmp_res_names = Append(pp.tmp_res_names, pp.res_name),
                                !.step = ""]
                 /\ UNCHANGED <<failed_at, trace>>
            ELSE /\ Abort("post_processing", trace)
                 /\ pp' = p
                 /\ UNCHANGED fs
    /\ UNCHANGED <<cwd, clock, target_fname, ref_gm_seg_fname, compute_ratio,
                   res_type, denoising, tmp_dir, preprocessed, gm_seg,
                   res_names, val, ratio, runs, dirs>>

\* lines 196-198, then line 170: the names are recorded, post_processing
\* returns and the pipeline leaves the working directory
PostEnd ==
    /\ pc = "post_end"
    /\ pc' = "pipeline_done"
    /\ res_names' = [wm_seg           |-> pp.tmp_res_names[1],
                     gm_seg           |-> pp.tmp_res_names[2],
                     corrected_wm_seg |-> pp.tmp_res_names[3]]
    /\ trace' = Append(trace, Ret("post_processing"))
    /\ cwd' = cwd - 1
    /\ UNCHANGED <<failed_at, fs, clock, target_fname, ref_gm_seg_fname,
                   compute_ratio, res_type, denoising, tmp_dir, preprocessed,
                   gm_seg, val, pp, ratio, runs, dirs>>

\* lines 128-129: compute_ratio is called when the flag is set
StartRatio ==
    /\ pc = "pipeline_done"
    /\ compute_ratio
    /\ pc' = "compute_ratio"
    /\ trace' = Append(trace, Call("compute_ratio"))
    /\ UNCHANGED <<failed_at, cwd, fs, clock, target_fname, ref_gm_seg_fname,
                   compute_ratio, res_type, denoising, tmp_dir, preprocessed,
                   gm_seg, res_names, val, pp, ratio, runs, dirs>>

\* lines 128, 131-141: without the flag the run ends
Finish ==
    /\ pc = "pipeline_done"
    /\ ~compute_ratio
    /\ pc' = "done"
    /\ UNCHANGED <<failed_at, cwd, fs, clock, target_fname, ref_gm_seg_fname,
                   compute_ratio, res_type, denoising, tmp_dir, preprocessed,
                   gm_seg, res_names, trace, val, pp, ratio, runs, dirs>>

----------------------------------------------------------------------------
(* One run of the pipeline, up to the call of compute_ratio *)

Next ==
    \/ CreateWorkspace
    \/ StageInputs
    \/ Preprocess
    \/ Segment
    \/ StageRef
    \/ ValBegin
    \/ ValRef
    \/ ValSave
    \/ DiceDirect
    \/ Register
    \/ Threshold
    \/ Binarize
    \/ DiceRetry
    \/ ValReport
    \/ Hausdorff
    \/ ValEnd
    \/ PostBegin
    \/ PostUncrop
    \/ PostOrient
    \/ PostResample
    \/ PostThreshold
    \/ PostCopy
    \/ PostEnd
    \/ StartRatio
    \/ Finish

Spec == Init /\ [][Next]_vars

----------------------------------------------------------------------------
(* compute_ratio() *)

GM_CSA_TXT == <<"g", "m", "_", "c", "s", "a", ".", "t", "x", "t">>

WM_CSA_TXT == <<"w", "m", "_", "c", "s", "a", ".", "t", "x", "t">>

RATIO_TXT == <<"r", "a", "t", "i", "o", ".", "t", "x", "t">>

\* the lines the area tool writes: a slice index and an area
Indices == {"0", "1"}

GmAreas == {10, 20}

WmAreas == {0, 5, 10}

GmRecords == [i : Indices, area : GmAreas]

WmRecords == [i : Indices, area : WmAreas]

SeqsUpTo(S, n) == UNION {[1..k -> S] : k \in 0..n}

RECURSIVE GCD(_, _)
GCD(a, b) == IF b = 0 THEN a ELSE GCD(b, a % b)

\* float(gm_area)/float(wm_area): the quotient, kept exact as
\* <<numerator, denominator>> in lowest terms; a zero denominator stands
\* for a value that is not finite
Divide(a, b) == <<a \div GCD(a, b), b \div GCD(a, b)>>

\* line 222: assert i == j
IndexAssertOff(i, j) == TRUE

IndexAssert(i, j) == i = j

\* line 219: zip pairs the lines position by position and stops with the
\* shorter sequence
ZipPadded(gl, wl) ==
    LET n   == IF Len(gl) >= Len(wl) THEN Len(gl) ELSE Len(wl)
        pad == [i |-> "", area |-> 0]
    IN  [p \in 1..n |-> <<IF p <= Len(gl) THEN gl[p] ELSE pad,
                          IF p <= Len(wl) THEN wl[p] ELSE pad>>]

Zip(gl, wl) ==
    LET n == IF Len(gl) <= Len(wl) THEN Len(gl) ELSE Len(wl)
    IN  [p \in 1..n |-> <<gl[p], wl[p]>>]

\* line 223: the division of two Python floats raises ZeroDivisionError on
\* a zero divisor
DivisionRaisesNever(b) == FALSE

DivisionRaises(b) == b = 0

\* lines 219-223: an assertion or a division that raises ends the loop
\* with what was written before it
RECURSIVE RatioLoop(_, _)
RatioLoop(pairs, out) ==
    IF pairs = <<>>
    THEN [out |-> out, err |-> "none"]
    ELSE LET g == Head(pairs)[1]
             w == Head(pairs)[2]
         IN  IF ~IndexAssert(g.i, w.i)
             THEN [out |-> out, err |-> "AssertionError"]
             ELSE IF DivisionRaises(w.area)
             THEN [out |-> out, err |-> "ZeroDivisionError"]
             ELSE RatioLoop(Tail(pairs),
                            Append(out, [i |-> g.i, ratio |-> Divide(g.area, w.area)]))

\* lines 201-225, then lines 131-141
ComputeRatio ==
    /\ pc = "compute_ratio"
    /\ \E ok \in BOOLEAN,
          gl \in SeqsUpTo(GmRecords, MaxLines),
          wl \in SeqsUpTo(WmRecords, MaxLines) :
        IF Run(ok, FALSE) = "ok"
        THEN LET r == RatioLoop(Zip(gl, wl), <<>>)
             IN  /\ ratio' = [gm_lines |-> gl, wm_lines |-> wl,
                              out |-> r.out, err |-> r.err]
                 /\ fs' = fs \cup {<<cwd, GM_CSA_TXT>>, <<cwd, WM_CSA_TXT>>,
                                   <<cwd, RATIO_TXT>>}
                 /\ IF r.err = "none"
                    THEN /\ pc' = "done"
                         /\ trace' = Append(trace, Ret("compute_ratio"))
                         /\ UNCHANGED failed_at
                    ELSE Abort("compute_ratio", trace)
        ELSE /\ Abort("compute_ratio", trace)
             /\ ratio' = [NoRatio EXCEPT !.err = "tool"]
             /\ UNCHANGED fs
    /\ UNCHANGED <<cwd, clock, target_fname, ref_gm_seg_fname, compute_ratio,
                   res_type, denoising, tmp_dir, preprocessed, gm_seg,
                   res_names, val, pp, runs, dirs>>

\* The state in which compute_ratio is entered, for a run without
\* reference, with binary output, no denoising, a subject in RPI at
\* 0.302 x 0.3 and no failure before.
RatioEntryPreprocessed ==
    [t2star |-> TARGET \o NIIGZ, sc_seg |-> TARGET_SC_SEG \o NIIGZ,
     resample_to |-> RESAMPLE_TO, original_px |-> 302, original_py |-> 300,
     original_orientation |-> RPI, square_mask |-> "maskA",
     treated_target |-> TARGET \o SEG_IN_CROPED \o NIIGZ,
     crop_mask_used |-> "maskA"]

RatioEntrySuffix(k) == <<RES_WMSEG, RES_GMSEG, RES_WMSEG_CORRECTED>>[k]

RatioEntryOs(k) == TARGET \o SEG_IN_CROPED \o RatioEntrySuffix(k) \o ORIGINAL_SPACE

RatioEntryFinal(tg, k) == extract_fname(tg)[2] \o RatioEntrySuffix(k) \o NIIGZ

RatioEntryFiles(tg) ==
    {<<1, TARGET \o NIIGZ>>, <<1, TARGET_SC_SEG \o NIIGZ>>}
    \cup UNION {{<<1, RatioEntryOs(k) \o NIIGZ>>,
                 <<1, RatioEntryOs(k) \o US \o RPI \o NIIGZ>>,
                 <<1, RatioEntryOs(k) \o US \o RPI \o RESAMPLED \o NIIGZ>>,
                 <<0, RatioEntryFinal(tg, k)>>} : k \in 1..3}

RatioEntryTrace ==
    <<Call("workspace"), Ret("workspace"), Call("staging"), Ret("staging"),
      Call("Preprocessing"), Ret("Preprocessing"),
      Call("GMsegSupervisedMethod"), Ret("GMsegSupervisedMethod"),
      Call("post_processing"), Ret("post_processing"), Call("compute_ratio")>>

InitRatio ==
    /\ pc = "compute_ratio"
    /\ failed_at = ""
    /\ cwd = 0
    /\ clock = 0
    /\ target_fname \in {check_file_to_niigz(tg) : tg \in Targets}
    /\ fs = RatioEntryFiles(target_fname)
    /\ ref_gm_seg_fname = NoneName
    /\ compute_ratio = TRUE
    /\ res_type = "binary"
    /\ denoising = FALSE
    /\ tmp_dir = TmpDirName(target_fname, 0)
    /\ preprocessed = RatioEntryPreprocessed
    /\ gm_seg = GMsegSupervisedMethod(TARGET \o SEG_IN_CROPED \o NIIGZ, "binary")
    /\ res_names = [wm_seg           |-> RatioEntryFinal(target_fname, 1),
                    gm_seg           |-> RatioEntryFinal(target_fname, 2),
                    corrected_wm_seg |-> RatioEntryFinal(target_fname, 3)]
    /\ trace = RatioEntryTrace
    /\ val = NoVal
    /\ pp = [k |-> 3, step |-> "", mask |-> "maskA",
             os_name |-> RatioEntryOs(3),
             orient_out |-> RatioEntryOs(3) \o US \o RPI \o NIIGZ,
             res_name |-> RatioEntryFinal(target_fname, 3),
             old_res_name |-> RatioEntryOs(3) \o US \o RPI \o RESAMPLED \o NIIGZ,
             tmp_res_names |-> <<RatioEntryFinal(target_fname, 1),
                                 RatioEntryFinal(target_fname, 2),
                                 RatioEntryFinal(target_fname, 3)>>,
             last |-> [NoCall EXCEPT
                       !.tool = "cp",
                       !.in1 = RatioEntryOs(3) \o US \o RPI \o RESAMPLED \o NIIGZ,
                       !.out = RatioEntryFinal(target_fname, 3)]]
    /\ ratio = NoRatio
    /\ runs = NoRuns
    /\ dirs = {}

NextRatio == ComputeRatio

SpecRatio == InitRatio /\ [][NextRatio]_vars

----------------------------------------------------------------------------
(* Two runs started from the same directory *)

Runs == {1, 2}

\* the single-run variables play no part here
Idle ==
    /\ pc = "idle"
    /\ failed_at = ""
    /\ cwd = 0
    /\ fs = {}
    /\ target_fname = <<>>
    /\ ref_gm_seg_fname = NoneName
    /\ compute_ratio = FALSE
    /\ res_type = "binary"
    /\ denoising = FALSE
    /\ tmp_dir = <<>>
    /\ preprocessed = NoPreprocessed
    /\ gm_seg = NoGmSeg
    /\ res_names = NoResNames
    /\ trace = <<>>
    /\ val = NoVal
    /\ pp = NoPp
    /\ ratio = NoRatio

InitConc ==
    /\ Idle
    /\ clock = 0
    /\ runs \in [Runs -> [pc : {"init"}, target : Targets, tmp_dir : {<<>>}]]
    /\ dirs = {}

\* line 118 in run r: the name of its working directory, from the clock
ConcName(r) ==
    /\ runs[r].pc = "init"
    /\ runs' = [runs EXCEPT ![r].pc = "named",
                            ![r].tmp_dir = TmpDirName(runs[r].target, clock)]
    /\ UNCHANGED <<clock, dirs>>
    /\ UNCHANGED pipeVars

\* line 119 in run r: mkdir fails on a directory that is there
ConcMkdir(r) ==
    /\ runs[r].pc = "named"
    /\ \E ok \in BOOLEAN :
        IF Run(ok /\ runs[r].tmp_dir \notin dirs, FALSE) = "ok"
        THEN /\ runs' = [runs EXCEPT ![r].pc = "created"]
             /\ dirs' = dirs \cup {runs[r].tmp_dir}
        ELSE /\ runs' = [runs EXCEPT ![r].pc = "fatal"]
             /\ UNCHANGED dirs
    /\ UNCHANGED clock
    /\ UNCHANGED pipeVars

\* lines 47-48 in run r: the inputs are copied into its working directory
ConcStage(r) ==
    /\ runs[r].pc = "created"
    /\ \E ok \in BOOLEAN :
        runs' = [runs EXCEPT ![r].pc =
                    IF Run(ok, FALSE) = "ok" THEN "staged" ELSE "fatal"]
    /\ UNCHANGED <<clock, dirs>>
    /\ UNCHANGED pipeVars

\* a second passes
Tick ==
    /\ clock < MaxClock
    /\ clock' = clock + 1
    /\ UNCHANGED <<runs, dirs>>
    /\ UNCHANGED pipeVars

NextConc ==
    \/ \E r \in Runs : ConcName(r)
    \/ \E r \in Runs : ConcMkdir(r)
    \/ \E r \in Runs : ConcStage(r)
    \/ Tick

SpecConc == InitConc /\ [][NextConc]_vars

----------------------------------------------------------------------------
(* Properties *)

IsPrefix(a, b) == Len(a) <= Len(b) /\ SubSeq(b, 1, Len(a)) = a

HasRef == ref_gm_seg_fname # NoneName

\* the calls and returns of a complete run, in the order of the claim
StageOrder ==
    <<Call("workspace"), Ret("workspace"), Call("staging"), Ret("staging"),
      Call("Preprocessing"), Ret("Preprocessing"),
      Call("GMsegSupervisedMethod"), Ret("GMsegSupervisedMethod")>>
    \o (IF HasRef THEN <<Call("validation"), Ret("validation")>> ELSE <<>>)
    \o <<Call("post_processing"), Ret("post_processing")>>
    \o (IF compute_ratio THEN <<Call("compute_ratio"), Ret("compute_ratio")>> ELSE <<>>)

\* C1: the stages are called in the order workspace and staging,
\* Preprocessing, Segmenter, validation, post_processing, compute_ratio,
\* each after the one before it has returned; validation is among them
\* exactly when a reference was given and compute_ratio exactly when the
\* flag is set.
C1_StageOrder ==
    /\ IsPrefix(trace, StageOrder)
    /\ (pc = "done" => trace = StageOrder)
    /\ (pc = "compute_ratio" => Append(trace, Ret("compute_ratio")) = StageOrder)

C1_Witness ==
    /\ pc = "compute_ratio"
    /\ HasRef
    /\ Len(trace) = 13

\* the commands of one tissue's overlap computation, in the order made
CallsOf(t) == SelectSeq(val.calls, LAMBDA c : c.tissue = t /\ c.tool # "sct_compute_hausdorff_distance")

RefChars(t) == IF t = "gm" THEN REF_GM_SEG ELSE REF_WM_SEG

ResChars(t) == (IF t = "gm" THEN RES_GM_SEG_BIN ELSE RES_WM_SEG_BIN) \o US \o RPI

\* the direct call, then registration, threshold at 0.1, binarisation and
\* one retry
FallbackCalls(t) ==
    LET ref == RefChars(t) \o NIIGZ
        reg == RefChars(t) \o IN_RES_SPACE \o NIIGZ
        res == ResChars(t) \o NIIGZ
    IN  <<[NoCall EXCEPT !.tool = "sct_dice_coefficient", !.tissue = t,
                         !.in1 = ref, !.in2 = res],
          [NoCall EXCEPT !.tool = "isct_antsRegistration", !.tissue = t,
                         !.in1 = res, !.in2 = ref, !.out = reg],
          [NoCall EXCEPT !.tool = "sct_maths -thr", !.tissue = t,
                         !.in1 = reg, !.out = reg, !.n = 100],
          [NoCall EXCEPT !.tool = "sct_maths -bin", !.tissue = t,
                         !.in1 = reg, !.out = reg],
          [NoCall EXCEPT !.tool = "sct_dice_coefficient", !.tissue = t,
                         !.in1 = reg, !.in2 = res]>>

DiceReportWritten == \E f \in fs : f[1] = 0 /\ StartsWith(f[2], DICE_)

\* the overlap of tissue t is settled: the run has gone on past it
PastDice(t) ==
    \/ pc \in {"val_report", "hausdorff", "val_end", "post_begin", "post",
               "post_end", "pipeline_done", "compute_ratio", "done"}
    \/ pc = "dice" /\ t = "gm" /\ val.tissue = "wm"

C3_FallbackOnlyOnMismatch ==
    \A t \in {"gm", "wm"} :
        /\ (val.fallback[t] => val.direct[t] = "mismatch")
        /\ (val.direct[t] = "other" => pc = "fatal")

PastPreprocessing == pc \notin {"init", "staging", "preprocessing", "idle"}

\* C5: after Preprocessing no step changes resample_to, original_px,
\* original_py, original_orientation or square_mask; validation resamples
\* the reference to the target spacing and crops it with the mask the
\* subject was cropped with, and post_processing un-crops with that mask
\* and resamples to the native spacing.
C5_DescriptorFrozenAndUsed ==
    /\ [][PastPreprocessing => preprocessed' = preprocessed]_vars
    /\ [](/\ (val.ref_resampled_to # 0 =>
                /\ val.ref_resampled_to = 300
                /\ val.ref_resampled_to = preprocessed.resample_to)
           /\ (val.ref_crop_mask # "" =>
                val.ref_crop_mask = preprocessed.crop_mask_used)
           /\ (pp.mask # "" => pp.mask = preprocessed.crop_mask_used)
           /\ (pp.last.tool = "inverse_square_crop" =>
                pp.last.mask = preprocessed.crop_mask_used)
           /\ (pp.last.tool = "resample_image" =>
                /\ pp.last.n = preprocessed.original_px
                /\ pp.last.n2 = preprocessed.original_py))

C5_Witness ==
    /\ pc = "post"
    /\ pp.last.tool = "resample_image"
    /\ val.ref_crop_mask = "maskB"
    /\ val.ref_resampled_to = 300
    /\ preprocessed.original_px = 500

----------------------------------------------------------------------------
\* the subject's base name and the suffixes of the three outputs
SubjectBase == IF target_fname = T3 THEN <<"s", "1">> ELSE <<"t">>

OutputSuffix(k) == <<RES_WMSEG, RES_GMSEG, RES_WMSEG_CORRECTED>>[k]

FinalOutput(k) == SubjectBase \o OutputSuffix(k) \o NIIGZ

AtRoot(name) == <<0, name>> \in fs

PostFailed == pc = "fatal" /\ failed_at = "post_processing"

\* C7 as claimed: a fatal error in post_processing leaves none of the three
\* final outputs at the workspace root.
C7_AllOrNone == PostFailed => \A k \in 1..3 : ~AtRoot(FinalOutput(k))

\* C7 as amended: a fatal error while the k-th volume is treated leaves
\* the final outputs of the volumes before it at the workspace root, and
\* not those of the k-th and later volumes.
C7_EarlierOutputsRemain ==
    PostFailed => \A k \in 1..3 : AtRoot(FinalOutput(k)) <=> k < pp.k

C7_Witness ==
    /\ PostFailed
    /\ pp.k = 3
    /\ AtRoot(FinalOutput(1))
    /\ AtRoot(FinalOutput(2))
    /\ preprocessed.original_orientation = RPI

\* C8: each result volume is persisted one level above the working
\* directory as subject base name + its suffix + '.nii.gz', and after a
\* successful run res_names maps wm_seg, gm_seg and corrected_wm_seg to
\* the names of the white-matter, gray-matter and corrected white-matter
\* outputs.
C8_FinalNames ==
    /\ (pc \in {"post", "post_end"} =>
          \A k \in 1..Len(pp.tmp_res_names) :
              /\ pp.tmp_res_names[k] = FinalOutput(k)
              /\ <<cwd - 1, FinalOutput(k)>> \in fs
              /\ cwd - 1 = 0)
    /\ pc \in {"pipeline_done", "compute_ratio", "done"} =>
          /\ res_names = [wm_seg           |-> FinalOutput(1),
                          gm_seg           |-> FinalOutput(2),
                          corrected_wm_seg |-> FinalOutput(3)]
          /\ \A k \in 1..3 : AtRoot(FinalOutput(k))
          /\ gm_seg.res_wm_seg.data.tissue = "wm"
          /\ gm_seg.res_gm_seg.data.tissue = "gm"
          /\ gm_seg.corrected_wm_seg.data.tissue = "corrected_wm"

C8_Witness ==
    /\ pc = "done"
    /\ target_fname = T3
    /\ denoising
    /\ preprocessed.original_px = 500
    /\ res_names.gm_seg = <<"s", "1">> \o RES_GMSEG \o NIIGZ

\* C9: in post_processing the volume handed to the resampling is the one
\* the reorientation to the native orientation has just written.
C9_ResampleTakesReoriented ==
    (pc \in {"post", "fatal"} /\ pp.last.tool = "resample_image") =>
        pp.last.in1 = pp.orient_out

\* C10: the boundary-distance tool gets the reference of the pair that gave
\* the gray-matter overlap score: the registered reference when the
\* fallback was taken, the cropped reference otherwise.
C10_HausdorffOnScoredPair ==
    val.hd_ref # <<>> => val.hd_ref = val.scored.gm[1]

----------------------------------------------------------------------------
Min(a, b) == IF a <= b THEN a ELSE b

RatioRan == pc \in {"done", "fatal"} /\ ratio.err \in {"none", "AssertionError", "ZeroDivisionError"}

Paired == 1..Min(Len(ratio.gm_lines), Len(ratio.wm_lines))

\* record p of the output is (index, gray area / white area) of position p
RecordOf(p) ==
    /\ p <= Len(ratio.out)
    /\ ratio.out[p].i = ratio.gm_lines[p].i
    /\ ratio.out[p].ratio[2] > 0
    /\ ratio.out[p].ratio[1] * ratio.wm_lines[p].area
          = ratio.out[p].ratio[2] * ratio.gm_lines[p].area

Misaligned(p) == ratio.gm_lines[p].i # ratio.wm_lines[p].i

ZeroWhite(p) == ~Misaligned(p) /\ ratio.wm_lines[p].area = 0

\* C4 as claimed: one record per position when the indices agree at every
\* position, an alignment error when they differ at some position.
C4_RecordPerPosition ==
    RatioRan =>
        IF \E p \in Paired : Misaligned(p)
        THEN ratio.err = "AssertionError"
        ELSE /\ ratio.err = "none"
             /\ Len(ratio.out) = Cardinality(Paired)
             /\ \A p \in Paired : RecordOf(p)

\* C4 as amended: the positions are treated in order; a position with
\* equal indices and a non-zero white area gives one record; the first
\* position with different indices ends the run with an alignment error,
\* the first with equal indices and a zero white area with a division
\* error; nothing is written for that position or after it.
C4_RecordUntilFailure ==
    RatioRan =>
        LET bad == {p \in Paired : Misaligned(p) \/ ZeroWhite(p)}
        IN  IF bad = {}
            THEN /\ ratio.err = "none"
                 /\ pc = "done"
                 /\ Len(ratio.out) = Cardinality(Paired)
                 /\ \A p \in Paired : RecordOf(p)
            ELSE LET first == CHOOSE p \in bad : \A q \in bad : p <= q
                 IN  /\ pc = "fatal"
                     /\ ratio.err = IF Misaligned(first) THEN "AssertionError"
                                                         ELSE "ZeroDivisionError"
                     /\ Len(ratio.out) = first - 1
                     /\ \A p \in 1..(first - 1) : RecordOf(p)

C4_Witness ==
    /\ pc = "done"
    /\ ratio.gm_lines = <<[i |-> "0", area |-> 10], [i |-> "1", area |-> 20]>>
    /\ ratio.wm_lines = <<[i |-> "0", area |-> 5], [i |-> "1", area |-> 10]>>
    /\ ratio.out = <<[i |-> "0", ratio |-> <<2, 1>>], [i |-> "1", ratio |-> <<2, 1>>]>>

----------------------------------------------------------------------------
Named(r) == runs[r].pc \in {"named", "created", "staged", "fatal"} /\ runs[r].tmp_dir # <<>>

\* C6: two runs for distinct subjects started from the same directory
\* never have the same working directory name.
C6_DistinctSubjectsDistinctDirs ==
    \A r, s \in Runs :
        (r # s /\ runs[r].target # runs[s].target /\ Named(r) /\ Named(s)) =>
            runs[r].tmp_dir # runs[s].tmp_dir

----------------------------------------------------------------------------
\* what the Segmenter returned for this subject
SegmenterResult == GMsegSupervisedMethod(preprocessed.treated_target, res_type)

\* the data of the comparison copy of a result volume
ComparisonData(tissue, thr) ==
    IF res_type = "prob"
    THEN [tissue |-> tissue, kind |-> "binary", thr |-> thr]
    ELSE [tissue |-> tissue, kind |-> "binary", thr |-> 0]

\* C11: validation binarises only its copies, and only a probabilistic
\* result (gray matter at 0.5, white matter at 0.50001); the data, path and
\* file name of the Segmenter's three volumes are after validation what
\* the Segmenter returned, and post_processing un-crops those volumes
\* whether or not validation ran.
C11_ValidationLeavesResults ==
    /\ (gm_seg # NoGmSeg => gm_seg = SegmenterResult)
    /\ (val.res_gm_seg_bin # NoVolume =>
          /\ val.res_gm_seg_bin.data = ComparisonData("gm", 50000)
          /\ val.res_wm_seg_bin.data = ComparisonData("wm", 50001))
    /\ (pp.last.tool = "inverse_square_crop" =>
          pp.last.in1 = extract_fname(preprocessed.treated_target)[2]
                            \o OutputSuffix(pp.k))

C11_Witness ==
    /\ pc = "post"
    /\ HasRef
    /\ res_type = "prob"
    /\ pp.k = 2
    /\ pp.last.tool = "inverse_square_crop"
    /\ val.res_gm_seg_bin.data.kind = "binary"
    /\ val.res_gm_seg_bin.file_name = RES_GM_SEG_BIN \o US \o RPI
    /\ gm_seg.res_gm_seg.data.kind = "prob"

----------------------------------------------------------------------------
\* position p has a zero white area and is reached: no position before it
\* ended the loop
FirstZeroWhite(p) ==
    /\ ZeroWhite(p)
    /\ \A q \in 1..(p - 1) : ~Misaligned(q) /\ ~ZeroWhite(q)

\* C12 as claimed: at a position with equal indices and a zero white area
\* the division is made and its result, which is not finite, is the
\* record of that position.
C12_NonFiniteRecorded ==
    RatioRan =>
        \A p \in Paired :
            FirstZeroWhite(p) =>
                /\ p <= Len(ratio.out)
                /\ ratio.out[p].i = ratio.gm_lines[p].i
                /\ ratio.out[p].ratio[2] = 0

\* C12 as amended: the denominator is not guarded, and at the first
\* position with equal indices and a zero white area the division raises
\* a division error that ends the run; no record is written for that
\* position or a later one, so no record holds a value that is not finite
\* or a substituted value.
C12_ZeroWhiteIsFatal ==
    RatioRan =>
        /\ \A p \in 1..Len(ratio.out) :
              /\ ratio.wm_lines[p].area # 0
              /\ ratio.out[p].ratio[2] > 0
        /\ \A p \in Paired :
              FirstZeroWhite(p) =>
                  /\ pc = "fatal"
                  /\ ratio.err = "ZeroDivisionError"
                  /\ Len(ratio.out) = p - 1

C12_Witness ==
    /\ pc = "fatal"
    /\ ratio.gm_lines = <<[i |-> "0", area |-> 10], [i |-> "1", area |-> 20]>>
    /\ ratio.wm_lines = <<[i |-> "0", area |-> 5], [i |-> "1", area |-> 0]>>
    /\ ratio.out = <<[i |-> "0", ratio |-> <<2, 1>>]>>
    /\ ratio.err = "ZeroDivisionError"

----------------------------------------------------------------------------
\* the name of a validation report of this subject
ExpectedReport(prefix) == prefix \o SubjectBase \o US \o TypeChars(res_type) \o TXT

\* C13: in a run without error the working directory is the starting
\* directory up to the Segmenter's chdir and again once the pipeline has
\* returned (where compute_ratio runs), the working subdirectory from the
\* Segmenter to the end of post_processing outside validation's inner
\* part, and the validation subdirectory, two levels down, exactly while
\* validation compares and reports; the reports and the final outputs are
\* then in the starting directory.
C13_WorkingDirectory ==
    /\ (pc \in {"init", "staging", "preprocessing", "segmenter",
                 "pipeline_done", "compute_ratio", "done"} => cwd = 0)
    /\ (pc \in {"stage_ref", "val_begin", "val_ref", "post_begin", "post",
                 "post_end"} => cwd = 1)
    /\ (pc \in {"val_save", "dice", "val_report", "hausdorff", "val_end"} =>
          cwd = 2)
    /\ (pc # "fatal" /\ cwd = 2 =>
          pc \in {"val_save", "dice", "val_report", "hausdorff", "val_end"})
    /\ (pc \in {"hausdorff", "val_end"} => <<0, ExpectedReport(DICE_)>> \in fs)
    /\ (HasRef /\ pc \in {"post_begin", "post", "post_end", "pipeline_done",
                           "compute_ratio", "done"} =>
          /\ <<0, ExpectedReport(DICE_)>> \in fs
          /\ <<0, ExpectedReport(HD_)>> \in fs)
    /\ (pc \in {"pipeline_done", "compute_ratio", "done"} =>
          \A k \in 1..3 : <<0, FinalOutput(k)>> \in fs)
    /\ (pc # "fatal" =>
          \A f \in fs :
              (\/ StartsWith(f[2], DICE_)
               \/ \E k \in 1..3 : f[2] = FinalOutput(k)) => f[1] = 0)

C13_Witness ==
    /\ pc = "done"
    /\ HasRef
    /\ cwd = 0
    /\ <<0, ExpectedReport(HD_)>> \in fs
    /\ <<0, FinalOutput(3)>> \in fs
    /\ <<2, RES_GM_SEG_BIN \o NIIGZ>> \in fs

----------------------------------------------------------------------------
UnequalLengths == Len(ratio.gm_lines) # Len(ratio.wm_lines)

\* C14: with sequences of different lengths compute_ratio fails for no
\* other reason than a failing position among the first min(len_gm,
\* len_wm): it writes records for those positions only, all of them when
\* none fails, and leaves the surplus of the longer sequence unread.
C14_SurplusIgnored ==
    (RatioRan /\ UnequalLengths) =>
        /\ Len(ratio.out) <= Cardinality(Paired)
        /\ \A p \in 1..Len(ratio.out) : RecordOf(p)
        /\ (ratio.err # "none" =>
              \E p \in Paired : Misaligned(p) \/ ZeroWhite(p))
        /\ ((\A p \in Paired : ~Misaligned(p) /\ ~ZeroWhite(p)) =>
              /\ pc = "done"
              /\ ratio.err = "none"
              /\ Len(ratio.out) = Cardinality(Paired))

C14_Witness ==
    /\ pc = "done"
    /\ ratio.gm_lines = <<[i |-> "0", area |-> 10], [i |-> "1", area |-> 20]>>
    /\ ratio.wm_lines = <<[i |-> "0", area |-> 5]>>
    /\ ratio.out = <<[i |-> "0", ratio |-> <<2, 1>>]>>
    /\ ratio.err = "none"

====
